---------------------------- MODULE Spec2Model ----------------------------
(***************************************************************************)
(* SessionManager of app/services/session_manager.py: the in-memory        *)
(* session store guarded by one RLock, the foreground operations on it,    *)
(* and the background thread _cleanup_expired_sessions with its two        *)
(* actions _send_inactivity_warning and _close_inactive_session.           *)
(*                                                                         *)
(* Time is the integer number of seconds datetime.now() has reached.       *)
(* A foreground operation whose whole body is one `with self.lock:` block  *)
(* is one step taken while the lock is free; get_session is split at its   *)
(* membership test so that the exclusion the lock gives is visible.  The   *)
(* scheduler's notifier calls are steps of their own, taken without the    *)
(* lock, so foreground operations interleave with them as in the code.     *)
(*                                                                         *)
(* users_to_warn and users_to_close are Python lists in dict order; the    *)
(* model keeps them as sets and lets the loops take the users in any       *)
(* order.                                                                  *)
(***************************************************************************)
EXTENDS Integers, Sequences, FiniteSets, TLC

\* ------------------------------------------------------------- bounds --
MaxTime == 2
MaxHistory == 1
MaxLimit == 2
MaxInbound == 5

Users == {"u1", "u2"}
Threads == {"t1", "t2"}
TimeoutChoices == {2, 3}

\* ---------------------------------------------------------- constants --
NoOne == "free"
Cleanup == "cleanup_thread"
WarningMessage == "warning_message"
ClosingMessage == "closing_message"
NotifierOutcomes == {"ok", "failed", "raised"}
UpdateInputs ==
    { [state |-> "AWAITING_QUERY"],
      [inactivity_warning_sent |-> TRUE],
      [closing_notice_sent |-> TRUE],
      [unknown_key |-> "x"] }

\* update_session called with any keyword arguments, stored or not.
FutureTime == MaxTime + 1

AnyFieldInputs ==
    UpdateInputs \cup { [message_history |-> << >>],
                        [created_at |-> FutureTime],
                        [state |-> "TICKET_CREATION", unknown_key |-> "x"] }

NoReturn == [op |-> "-"]
MissingFile == [kind |-> "missing"]
NotJson == [kind |-> "not_json"]
Damages == {"no_created_at", "bad_timestamp", "no_flags", "warned_no_closing_flag"}

VARIABLES
    sessions,           \* self.sessions: user_id -> session dict
    session_timeout,    \* self.session_timeout
    send_message_func,  \* self.send_message_func is set (TRUE) or None (FALSE)
    lock,               \* owner of self.lock
    now,                \* datetime.now(), in seconds
    wa_ids,             \* the user ids the foreground callers pass
    fg,                 \* per foreground thread: where it is inside get_session
    sched_pc,           \* position of the cleanup thread
    current_time,       \* the scan's current_time
    users_to_warn,      \* the scan's users_to_warn
    users_to_close,     \* the scan's users_to_close
    sched_user,         \* user_id of the scheduler action in progress
    tick_log,           \* the scheduler actions run in this pass, in order
    tick_due,           \* observer: users the scan found inactive >= timeout
    tick_fg,            \* observer: foreground operations per user since the scan
    notified,           \* observer: notifications attempted since the user's last activity
    created_count,      \* observer: records created for a user since it was last absent
    ret,                \* what the last foreground call returned (or raised)
    file,               \* the file save_sessions writes and load_sessions reads
    handler,            \* per thread: where it is inside process_whatsapp_message
    heap,               \* the context dicts, by object identity
    stored_ctx,         \* per user: which dict the stored session's 'context' is
    tickets,            \* create_odoo_ticket calls since the ticket flow was opened
    inbound             \* inbound messages taken so far

handler_vars == << handler, heap, stored_ctx, tickets, inbound >>

vars == << sessions, session_timeout, send_message_func, lock, now, wa_ids, fg, sched_pc,
           current_time, users_to_warn, users_to_close, sched_user, tick_log,
           tick_due, tick_fg, notified, created_count, ret, file, handler_vars >>

\* ------------------------------------------------------------ helpers --
inactivity_warning == session_timeout \div 2

Idle == [pc |-> "idle", user |-> "-", found |-> FALSE]

\* A record that is not the initial one.
NewSessionNotInitial(t) ==
    [ created_at |-> t,
      last_activity |-> t,
      state |-> "AWAITING_QUERY",
      context |-> << >>,
      thread_id |-> "None",
      message_history |-> << >>,
      inactivity_warning_sent |-> FALSE,
      closing_notice_sent |-> FALSE ]

\* Lines 54-63.
NewSession(t) ==
    [ created_at |-> t,
      last_activity |-> t,
      state |-> "INITIAL",
      context |-> << >>,
      thread_id |-> "None",
      message_history |-> << >>,
      inactivity_warning_sent |-> FALSE,
      closing_notice_sent |-> FALSE ]

HistoryEntry(role, content, t) ==
    [role |-> role, content |-> content, timestamp |-> t]

\* A removal that would empty the store.
RemoveEveryone(store, u) == << >>

\* Lines 105, 202: del self.sessions[user_id].
Remove(store, u) == [v \in (DOMAIN store) \ {u} |-> store[v]]

Put(store, u, s) == [v \in (DOMAIN store) \cup {u} |-> IF v = u THEN s ELSE store[v]]

\* A refresh that would also restart the session's age.
TouchResettingCreation(s, t) ==
    [s EXCEPT !.last_activity = t,
              !.created_at = t,
              !.inactivity_warning_sent = FALSE,
              !.closing_notice_sent = FALSE]

\* Lines 66-70, 90-94, 222-226: refresh last_activity and clear both flags.
Touch(s, t) ==
    [s EXCEPT !.last_activity = t,
              !.inactivity_warning_sent = FALSE,
              !.closing_notice_sent = FALSE]

\* An assignment of every key given, stored or not.
ApplyKwargsAnyKey(s, kwargs) ==
    [k \in (DOMAIN s) \cup (DOMAIN kwargs) |-> IF k \in DOMAIN kwargs THEN kwargs[k] ELSE s[k]]

\* Lines 85-87: only keys already in the session are assigned.
ApplyKwargs(s, kwargs) ==
    [k \in DOMAIN s |-> IF k \in DOMAIN kwargs THEN kwargs[k] ELSE s[k]]

\* The opposite order, in which a flag passed as a kwarg would survive the reset.
UpdatedSessionKwargsLast(s, kwargs, t) == ApplyKwargs(Touch(s, t), kwargs)

\* Lines 84-94: the kwargs are assigned first, then the refresh and the reset.
UpdatedSession(s, kwargs, t) == Touch(ApplyKwargs(s, kwargs), t)

AppendedSession(s, role, content, t) ==
    Touch([s EXCEPT !.message_history = Append(@, HistoryEntry(role, content, t))], t)

InactiveTime(s, t) == t - s.last_activity

ShouldClose(s, t) ==
    InactiveTime(s, t) >= session_timeout /\ ~s.closing_notice_sent

ShouldWarn(s, t) ==
    /\ ~ShouldClose(s, t)
    /\ InactiveTime(s, t) >= inactivity_warning
    /\ ~s.inactivity_warning_sent

Scanned(s, t) ==
    IF ShouldClose(s, t) THEN [s EXCEPT !.closing_notice_sent = TRUE]
    ELSE IF ShouldWarn(s, t) THEN [s EXCEPT !.inactivity_warning_sent = TRUE]
    ELSE s

\* A lock that excludes nobody.
CanAcquireNoExclusion(who) == TRUE

\* `with self.lock:` blocks until no other thread owns the lock.
CanAcquire(who) == lock = NoOne

\* Observers of the foreground operations.
NoteFg(u, kind) ==
    IF sched_pc \in {"sleep", "scan"} THEN tick_fg ELSE [tick_fg EXCEPT ![u] = kind]

NoNotes == [u \in Users |-> "none"]

Min(a, b) == IF a <= b THEN a ELSE b

\* Line 242: history[-limit:].  For limit = 0 the slice is [-0:], that is [0:],
\* the whole list; for limit >= len it is the whole list as well.
SliceLast(history, limit) ==
    IF limit = 0 \/ limit >= Len(history)
      THEN history
      ELSE SubSeq(history, Len(history) - limit + 1, Len(history))

\* A session still counted active at the instant it expires.
IsActiveAtExpiry(s, t) == t <= s.last_activity + session_timeout

\* Lines 122-123.
IsActive(s, t) == t < s.last_activity + session_timeout

\* datetime.isoformat() and datetime.fromisoformat(): a timestamp becomes a
\* string and back; a string that is no ISO date makes fromisoformat raise.
IsoFormat(t) == [iso |-> t]

IsIso(x) == DOMAIN x = {"iso"}

\* A parse that would keep the date and drop the time of day.
FromIsoFormatDateOnly(x) == 0

FromIsoFormat(x) == x.iso

\* Lines 256-258: a copy of the session with the two datetimes as strings.
SerializableSession(s) ==
    [k \in DOMAIN s |-> IF k \in {"created_at", "last_activity"} THEN IsoFormat(s[k]) ELSE s[k]]

\* Lines 254-262: what json.dump writes.
SavedFile(store) ==
    [kind |-> "json", records |-> [u \in DOMAIN store |-> SerializableSession(store[u])]]

\* A file as something other than save_sessions may have left it.
Damaged(f, u, d) ==
    LET r == f.records[u]
        bad == IF d = "no_created_at"
                 THEN [k \in (DOMAIN r) \ {"created_at"} |-> r[k]]
               ELSE IF d = "bad_timestamp"
                 THEN [r EXCEPT !.last_activity = [text |-> "yesterday"]]
               ELSE IF d = "no_flags"
                 THEN [k \in (DOMAIN r) \ {"inactivity_warning_sent", "closing_notice_sent"} |-> r[k]]
               ELSE [k \in (DOMAIN r) \ {"closing_notice_sent"} |->
                        IF k = "inactivity_warning_sent" THEN TRUE ELSE r[k]]
    IN [f EXCEPT !.records[u] = bad]

FileInputs ==
    {file, MissingFile, NotJson}
       \cup (IF file.kind = "json"
               THEN {Damaged(file, u, d) : u \in DOMAIN file.records, d \in Damages}
               ELSE {})

\* Lines 278-279: the exception the record makes the loop raise, if any.
RecordError(r) ==
    IF "created_at" \notin DOMAIN r THEN "KeyError"
    ELSE IF ~IsIso(r.created_at) THEN "ValueError"
    ELSE IF "last_activity" \notin DOMAIN r THEN "KeyError"
    ELSE IF ~IsIso(r.last_activity) THEN "ValueError"
    ELSE "None"

\* A conversion that would reset both flags, stored or not.
LoadedSessionFlagsReset(r) ==
    [k \in (DOMAIN r) \cup {"inactivity_warning_sent", "closing_notice_sent"} |->
        IF k \in {"created_at", "last_activity"} THEN FromIsoFormat(r[k])
        ELSE IF k \in {"inactivity_warning_sent", "closing_notice_sent"} THEN FALSE
        ELSE r[k]]

\* Lines 278-285: the datetimes parsed, missing flags defaulted to False.
LoadedSession(r) ==
    [k \in (DOMAIN r) \cup {"inactivity_warning_sent", "closing_notice_sent"} |->
        IF k \in {"created_at", "last_activity"} THEN FromIsoFormat(r[k])
        ELSE IF k \in DOMAIN r THEN r[k]
        ELSE FALSE]

\* The orders in which the loop of line 276 may meet the records of a file.
Orders(S) ==
    {o \in [1..Cardinality(S) -> S] : \A i, j \in 1..Cardinality(S) : i # j => o[i] # o[j]}

\* Lines 276-287: the records are stored one by one until one raises.
RECURSIVE LoadLoop(_, _, _, _)
LoadLoop(store, records, order, i) ==
    IF i > Len(order) THEN [store |-> store, raised |-> "None"]
    ELSE IF RecordError(records[order[i]]) # "None"
      THEN [store |-> store, raised |-> RecordError(records[order[i]])]
    ELSE LoadLoop(Put(store, order[i], LoadedSession(records[order[i]])), records, order, i + 1)

\* Lines 271-290: a missing file or one that is no JSON is caught at line 288.
LoadResults(store, f) ==
    IF f.kind # "json"
      THEN {[store |-> store, raised |-> "None"]}
      ELSE {LoadLoop(store, f.records, o, 1) : o \in Orders(DOMAIN f.records)}

\* ---------------------------------------------------- context dicts --
\* Python dicts are objects: the handler's `context` and the stored session's
\* 'context' may be one dict or two.  A dict is a sequence of <<key, value>>
\* pairs in insertion order, and heap holds the dicts by identity.
NoObj == 0

ObjIds == 1..(Cardinality(Threads) + Cardinality(Users) + 1)

EmptyDict == << >>

HasKey(d, k) == \E i \in DOMAIN d : d[i][1] = k

DictGet(d, k) == d[CHOOSE i \in DOMAIN d : d[i][1] = k][2]

DictSet(d, k, v) ==
    IF HasKey(d, k)
      THEN [i \in DOMAIN d |-> IF d[i][1] = k THEN << k, v >> ELSE d[i]]
      ELSE Append(d, << k, v >>)

\* The message bodies the webhook delivers.
Bodies == {"hola", "ayuda", "si", "no"}

\* Line 150.
IsGreeting(body) == body \in {"hola", "hi", "hello"}

\* Lines 110-134: a keyword of the list occurs in the message.
detect_ticket_intent(body) == body \in {"ayuda", "problema", "error"}

\* Line 173.
IsSkip(body) == body \in {"no", "n", "paso", "skip", "omitir"}

\* Line 193.
IsAffirmative(body) == body \in {"si", "yes", "confirmar", "aceptar", "ok"}

HandlerIdle == [pc |-> "idle", user |-> "-", body |-> "-", ctx |-> NoObj, branch |-> "-"]

\* The dicts something still refers to; the others are garbage.
LiveObjs(sc, hd) == ({sc[u] : u \in Users} \cup {hd[t].ctx : t \in Threads}) \ {NoObj}

Collected(h, sc, hd) == [i \in ObjIds |-> IF i \in LiveObjs(sc, hd) THEN h[i] ELSE EmptyDict]

\* A dict literal ({} or {'ticket_step': 'subject'}) is a new object.
NewObj == CHOOSE i \in ObjIds \ LiveObjs(stored_ctx, handler) :
              \A j \in ObjIds \ LiveObjs(stored_ctx, handler) : i <= j

\* Lines 160, 165, 170, 190: the step the context is at.
TicketStep(d) == IF HasKey(d, "ticket_step") THEN DictGet(d, "ticket_step") ELSE "subject"

\* Lines 162, 167, 179.
NextTicketStep(step) ==
    IF step = "subject" THEN "description"
    ELSE IF step = "description" THEN "email"
    ELSE "confirmation"

\* Lines 161, 166, 172-176: the key the step fills in and the value it gets.
StepKey(step) ==
    IF step = "subject" THEN "ticket_subject"
    ELSE IF step = "description" THEN "ticket_description"
    ELSE "ticket_email"

StepValue(step, body) == IF step = "email" /\ IsSkip(body) THEN "" ELSE body

\* ---------------------------------------------------------------- Init --
InitWith(ids, timeouts) ==
    /\ sessions = << >>
    /\ session_timeout \in timeouts
    /\ send_message_func = FALSE
    /\ lock = NoOne
    /\ now = 0
    /\ wa_ids = ids
    /\ fg = [t \in Threads |-> Idle]
    /\ sched_pc = "sleep"
    /\ current_time = 0
    /\ users_to_warn = {}
    /\ users_to_close = {}
    /\ sched_user = "-"
    /\ tick_log = << >>
    /\ tick_due = {}
    /\ tick_fg = NoNotes
    /\ notified = [u \in Users |-> << >>]
    /\ created_count = [u \in Users |-> 0]
    /\ ret = NoReturn
    /\ file = MissingFile
    /\ handler = [t \in Threads |-> HandlerIdle]
    /\ heap = [i \in ObjIds |-> EmptyDict]
    /\ stored_ctx = [u \in Users |-> NoObj]
    /\ tickets = 0
    /\ inbound = 0

Init == InitWith({"u1"}, TimeoutChoices)

InitPair == InitWith(Users, {2})

\* ------------------------------------------------- foreground operations --
Advance ==
    /\ now < MaxTime
    /\ now' = now + 1
    /\ UNCHANGED << ret, file, handler_vars >>
    /\ UNCHANGED << sessions, session_timeout, send_message_func, lock, wa_ids, fg, sched_pc,
                    current_time, users_to_warn, users_to_close, sched_user, tick_log,
                    tick_due, tick_fg, notified, created_count >>

set_send_message_function ==
    /\ ~send_message_func
    /\ send_message_func' = TRUE
    /\ UNCHANGED << ret, file, handler_vars >>
    /\ UNCHANGED << sessions, session_timeout, lock, now, wa_ids, fg, sched_pc,
                    current_time, users_to_warn, users_to_close, sched_user, tick_log,
                    tick_due, tick_fg, notified, created_count >>

\* Line 41: a thread calls get_session; it has not got the lock yet.
get_session_call(t, u) ==
    /\ fg[t].pc = "idle"
    /\ fg' = [fg EXCEPT ![t] = [pc |-> "called", user |-> u, found |-> FALSE]]
    /\ UNCHANGED << ret, file, handler_vars >>
    /\ UNCHANGED << sessions, session_timeout, send_message_func, lock, now, wa_ids, sched_pc,
                    current_time, users_to_warn, users_to_close, sched_user, tick_log,
                    tick_due, tick_fg, notified, created_count >>

\* Lines 51-52: the lock is taken and the membership test made.
get_session_enter(t) ==
    /\ fg[t].pc = "called"
    /\ CanAcquire(t)
    /\ lock' = t
    /\ fg' = [fg EXCEPT ![t].pc = "locked", ![t].found = fg[t].user \in DOMAIN sessions]
    /\ UNCHANGED << ret, file, handler_vars >>
    /\ UNCHANGED << sessions, session_timeout, send_message_func, now, wa_ids, sched_pc,
                    current_time, users_to_warn, users_to_close, sched_user, tick_log,
                    tick_due, tick_fg, notified, created_count >>

\* A get_session that would replace a session past its timeout by a new one.
get_session_return_replacing_expired(t) ==
    LET u == fg[t].user IN
    /\ fg[t].pc = "locked"
    /\ IF fg[t].found
         THEN /\ sessions' = IF u \in DOMAIN sessions
                               THEN IF IsActive(sessions[u], now)
                                      THEN [sessions EXCEPT ![u] = Touch(@, now)]
                                      ELSE Put(sessions, u, NewSession(now))
                               ELSE sessions
              /\ UNCHANGED created_count
         ELSE /\ sessions' = Put(sessions, u, NewSession(now))
              /\ created_count' = [created_count EXCEPT ![u] = @ + 1]
    /\ lock' = NoOne
    /\ fg' = [fg EXCEPT ![t] = Idle]
    /\ tick_fg' = NoteFg(u, "activity")
    /\ notified' = [notified EXCEPT ![u] = << >>]
    /\ ret' = NoReturn
    /\ UNCHANGED << file, handler_vars >>
    /\ UNCHANGED << session_timeout, send_message_func, now, wa_ids, sched_pc,
                    current_time, users_to_warn, users_to_close, sched_user, tick_log,
                    tick_due >>

\* Lines 53-72: create or refresh, return the record, release the lock.
get_session_return(t) ==
    LET u == fg[t].user IN
    /\ fg[t].pc = "locked"
    /\ IF fg[t].found
         THEN /\ sessions' = IF u \in DOMAIN sessions
                               THEN [sessions EXCEPT ![u] = Touch(@, now)]
                               ELSE sessions
              /\ UNCHANGED created_count
         ELSE /\ sessions' = Put(sessions, u, NewSession(now))
              /\ created_count' = [created_count EXCEPT ![u] = @ + 1]
    /\ lock' = NoOne
    /\ fg' = [fg EXCEPT ![t] = Idle]
    /\ tick_fg' = NoteFg(u, "activity")
    /\ notified' = [notified EXCEPT ![u] = << >>]
    /\ ret' = NoReturn
    /\ UNCHANGED << file, handler_vars >>
    /\ UNCHANGED << session_timeout, send_message_func, now, wa_ids, sched_pc,
                    current_time, users_to_warn, users_to_close, sched_user, tick_log,
                    tick_due >>

\* Lines 82-94, one locked block.
update_session(u, kwargs) ==
    /\ CanAcquire("caller")
    /\ sessions' = IF u \in DOMAIN sessions
                     THEN [sessions EXCEPT ![u] = UpdatedSession(@, kwargs, now)]
                     ELSE sessions
    /\ tick_fg' = NoteFg(u, IF u \in DOMAIN sessions THEN "activity" ELSE "ignored")
    /\ notified' = [notified EXCEPT ![u] = << >>]
    /\ ret' = NoReturn
    /\ UNCHANGED << file, handler_vars >>
    /\ UNCHANGED << session_timeout, send_message_func, lock, now, wa_ids, fg, sched_pc,
                    current_time, users_to_warn, users_to_close, sched_user, tick_log,
                    tick_due, created_count >>

\* Lines 103-105, one locked block.
end_session(u) ==
    /\ CanAcquire("caller")
    /\ sessions' = IF u \in DOMAIN sessions THEN Remove(sessions, u) ELSE sessions
    /\ created_count' = [created_count EXCEPT ![u] = 0]
    /\ tick_fg' = NoteFg(u, "other")
    /\ ret' = NoReturn
    /\ UNCHANGED << file, handler_vars >>
    /\ UNCHANGED << session_timeout, send_message_func, lock, now, wa_ids, fg, sched_pc,
                    current_time, users_to_warn, users_to_close, sched_user, tick_log,
                    tick_due, notified >>

\* An append that would open a session for a user that has none.
add_message_opening_session(u, role, content) ==
    /\ CanAcquire("caller")
    /\ u \in DOMAIN sessions => Len(sessions[u].message_history) < MaxHistory
    /\ sessions' = IF u \in DOMAIN sessions
                     THEN [sessions EXCEPT ![u] = AppendedSession(@, role, content, now)]
                     ELSE Put(sessions, u, AppendedSession(NewSession(now), role, content, now))
    /\ tick_fg' = NoteFg(u, "activity")
    /\ notified' = [notified EXCEPT ![u] = << >>]
    /\ ret' = NoReturn
    /\ UNCHANGED << session_timeout, send_message_func, lock, now, wa_ids, fg, sched_pc,
                    current_time, users_to_warn, users_to_close, sched_user, tick_log,
                    tick_due, created_count, file, handler_vars >>

\* Lines 215-226, one locked block.
add_message_to_history(u, role, content) ==
    /\ CanAcquire("caller")
    /\ u \in DOMAIN sessions => Len(sessions[u].message_history) < MaxHistory
    /\ sessions' = IF u \in DOMAIN sessions
                     THEN [sessions EXCEPT ![u] = AppendedSession(@, role, content, now)]
                     ELSE sessions
    /\ tick_fg' = NoteFg(u, IF u \in DOMAIN sessions THEN "activity" ELSE "ignored")
    /\ notified' = [notified EXCEPT ![u] = << >>]
    /\ ret' = NoReturn
    /\ UNCHANGED << file, handler_vars >>
    /\ UNCHANGED << session_timeout, send_message_func, lock, now, wa_ids, fg, sched_pc,
                    current_time, users_to_warn, users_to_close, sched_user, tick_log,
                    tick_due, created_count >>

\* Lines 117-123, one locked block; nothing is written.
is_session_active(u) ==
    /\ CanAcquire("caller")
    /\ ret' = [op |-> "is_session_active", user |-> u,
               value |-> (u \in DOMAIN sessions /\ IsActive(sessions[u], now))]
    /\ UNCHANGED << sessions, session_timeout, send_message_func, lock, now, wa_ids, fg, sched_pc,
                    current_time, users_to_warn, users_to_close, sched_user, tick_log,
                    tick_due, tick_fg, notified, created_count, file, handler_vars >>

\* Lines 239-243, one locked block; nothing is written.
get_message_history(u, limit) ==
    /\ CanAcquire("caller")
    /\ ret' = [op |-> "get_message_history", user |-> u, limit |-> limit,
               value |-> IF u \in DOMAIN sessions
                           THEN SliceLast(sessions[u].message_history, limit)
                           ELSE << >>]
    /\ UNCHANGED << sessions, session_timeout, send_message_func, lock, now, wa_ids, fg, sched_pc,
                    current_time, users_to_warn, users_to_close, sched_user, tick_log,
                    tick_due, tick_fg, notified, created_count, file, handler_vars >>

\* Lines 252-259: the lock is taken and the sessions are copied with their
\* datetimes as strings; the `with self.lock:` block is not left yet.
save_sessions_copy(t) ==
    /\ fg[t].pc = "idle"
    /\ CanAcquire(t)
    /\ lock' = t
    /\ fg' = [fg EXCEPT ![t].pc = "writing"]
    /\ UNCHANGED << sessions, session_timeout, send_message_func, now, wa_ids, sched_pc,
                    current_time, users_to_warn, users_to_close, sched_user, tick_log,
                    tick_due, tick_fg, notified, created_count, ret, file, handler_vars >>

\* A write after which the lock would stay owned by the caller.
save_sessions_write_keeping_lock(t) ==
    /\ fg[t].pc = "writing"
    /\ file' = SavedFile(sessions)
    /\ UNCHANGED handler_vars
    /\ fg' = [fg EXCEPT ![t] = Idle]
    /\ ret' = NoReturn
    /\ UNCHANGED << sessions, session_timeout, send_message_func, lock, now, wa_ids, sched_pc,
                    current_time, users_to_warn, users_to_close, sched_user, tick_log,
                    tick_due, tick_fg, notified, created_count >>

\* Lines 261-262: the file is written inside the locked block, which then ends.
save_sessions_write(t) ==
    /\ fg[t].pc = "writing"
    /\ file' = SavedFile(sessions)
    /\ UNCHANGED handler_vars
    /\ lock' = NoOne
    /\ fg' = [fg EXCEPT ![t] = Idle]
    /\ ret' = NoReturn
    /\ UNCHANGED << sessions, session_timeout, send_message_func, now, wa_ids, sched_pc,
                    current_time, users_to_warn, users_to_close, sched_user, tick_log,
                    tick_due, tick_fg, notified, created_count >>

\* Lines 271-290: the file is read, then the records are stored under the lock.
load_sessions(f) ==
    /\ CanAcquire("caller")
    /\ \E res \in LoadResults(sessions, f) :
         /\ sessions' = res.store
         /\ ret' = [op |-> "load_sessions", raised |-> res.raised,
                    into_empty |-> (sessions = << >>)]
    /\ UNCHANGED << session_timeout, send_message_func, lock, now, wa_ids, fg, sched_pc,
                    current_time, users_to_warn, users_to_close, sched_user, tick_log,
                    tick_due, tick_fg, notified, created_count, file, handler_vars >>

\* process_whatsapp_message, lines 144 and 157-162: the caller keeps the dict
\* get_session returned (line 72 returns the stored dict itself) and assigns
\* into its context; no lock is taken.
caller_writes_context(u) ==
    /\ u \in DOMAIN sessions
    /\ created_count[u] > 0
    /\ sessions[u].context = << >>
    /\ sessions' = [sessions EXCEPT ![u].context = << "ticket_subject" >>]
    /\ UNCHANGED << session_timeout, send_message_func, lock, now, wa_ids, fg, sched_pc,
                    current_time, users_to_warn, users_to_close, sched_user, tick_log,
                    tick_due, tick_fg, notified, created_count, ret, file, handler_vars >>

\* ------------------------------------------- process_whatsapp_message --
\* What the handler never touches directly.
handler_frame == << session_timeout, send_message_func, lock, now, wa_ids, fg, sched_pc,
                    current_time, users_to_warn, users_to_close, sched_user, tick_log,
                    tick_due, tick_fg, notified, created_count, ret >>

\* Lines 138-144: a message arrives and the handler calls get_session, which
\* creates the session (with a new, empty context dict) or refreshes it.
h_receive(t, u, body) ==
    /\ handler[t].pc = "idle"
    /\ inbound < MaxInbound
    /\ CanAcquire(t)
    /\ inbound' = inbound + 1
    /\ IF u \in DOMAIN sessions
         THEN /\ sessions' = [sessions EXCEPT ![u] = Touch(@, now)]
              /\ UNCHANGED << heap, stored_ctx >>
         ELSE /\ sessions' = Put(sessions, u, NewSession(now))
              /\ stored_ctx' = [stored_ctx EXCEPT ![u] = NewObj]
              /\ heap' = [heap EXCEPT ![NewObj] = EmptyDict]
    /\ handler' = [handler EXCEPT ![t] =
                      [pc |-> "add_user", user |-> u, body |-> body,
                       ctx |-> NoObj, branch |-> "-"]]
    /\ UNCHANGED << tickets, file, handler_frame >>

\* Line 147: add_message_to_history(wa_id, 'user', message_body).
h_add_user(t) ==
    LET u == handler[t].user IN
    /\ handler[t].pc = "add_user"
    /\ CanAcquire(t)
    /\ sessions' = IF u \in DOMAIN sessions
                     THEN [sessions EXCEPT ![u] =
                              AppendedSession(@, "user", handler[t].body, now)]
                     ELSE sessions
    /\ handler' = [handler EXCEPT ![t].pc = "branch"]
    /\ UNCHANGED << heap, stored_ctx, tickets, inbound, file, handler_frame >>

\* Lines 150, 155-157, 160, 165, 170, 190, 214, 224, 231: the branch is chosen
\* from the state of the returned (stored) record; in TICKET_CREATION the
\* handler takes the stored context dict and reads its ticket_step.
h_branch(t) ==
    LET u == handler[t].user
        body == handler[t].body
        state == sessions[u].state
        step == TicketStep(heap[stored_ctx[u]])
        branch == IF state = "INITIAL" /\ IsGreeting(body) THEN "greet"
                  ELSE IF state = "TICKET_CREATION"
                    THEN IF step \in {"subject", "description", "email", "confirmation"}
                           THEN step
                           ELSE "undefined"
                  ELSE IF detect_ticket_intent(body) THEN "intent"
                  ELSE "respond"
    IN
    /\ handler[t].pc = "branch"
    /\ u \in DOMAIN sessions
    /\ handler' = [handler EXCEPT ![t].pc = branch,
                                  ![t].branch = branch,
                                  ![t].ctx = IF state = "TICKET_CREATION"
                                               THEN stored_ctx[u] ELSE NoObj]
    /\ UNCHANGED << sessions, heap, stored_ctx, tickets, inbound, file, handler_frame >>

\* Line 153: update_session(wa_id, state='AWAITING_QUERY').
h_greet(t) ==
    LET u == handler[t].user IN
    /\ handler[t].pc = "greet"
    /\ CanAcquire(t)
    /\ sessions' = IF u \in DOMAIN sessions
                     THEN [sessions EXCEPT ![u] =
                              UpdatedSession(@, [state |-> "AWAITING_QUERY"], now)]
                     ELSE sessions
    /\ handler' = [handler EXCEPT ![t].pc = "reply"]
    /\ UNCHANGED << heap, stored_ctx, tickets, inbound, file, handler_frame >>

\* Lines 160-179: steps subject, description and email write the answer and
\* the next step into the dict the handler holds; no lock, no store call.
h_collect(t) ==
    LET u == handler[t].user
        step == handler[t].pc
        o == handler[t].ctx
        d == DictSet(DictSet(heap[o], StepKey(step), StepValue(step, handler[t].body)),
                     "ticket_step", NextTicketStep(step))
    IN
    /\ handler[t].pc \in {"subject", "description", "email"}
    /\ heap' = [heap EXCEPT ![o] = d]
    /\ sessions' = IF u \in DOMAIN sessions /\ stored_ctx[u] = o
                     THEN [sessions EXCEPT ![u].context = d]
                     ELSE sessions
    /\ handler' = [handler EXCEPT ![t].pc = "sync"]
    /\ UNCHANGED << stored_ctx, tickets, inbound, file, handler_frame >>

\* Lines 190-209: at the confirmation step an affirmative reply calls
\* create_odoo_ticket; any other reply cancels.
h_confirm(t) ==
    /\ handler[t].pc = "confirmation"
    /\ tickets' = IF IsAffirmative(handler[t].body) THEN tickets + 1 ELSE tickets
    /\ handler' = [handler EXCEPT ![t].pc = "reset"]
    /\ UNCHANGED << sessions, heap, stored_ctx, inbound, file, handler_frame >>

\* Lines 212, 217: update_session(wa_id, state='AWAITING_QUERY', context={});
\* the stored context becomes a new, empty dict.
h_reset(t) ==
    LET u == handler[t].user
        o == NewObj
        sc == [stored_ctx EXCEPT ![u] = o]
        hd == [handler EXCEPT ![t].pc = "sync"]
    IN
    /\ handler[t].pc \in {"reset", "undefined"}
    /\ CanAcquire(t)
    /\ u \in DOMAIN sessions
    /\ sessions' = [sessions EXCEPT ![u] =
                       UpdatedSession(@, [state |-> "AWAITING_QUERY",
                                          context |-> EmptyDict], now)]
    /\ stored_ctx' = sc
    /\ heap' = Collected([heap EXCEPT ![o] = EmptyDict], sc, hd)
    /\ handler' = hd
    /\ UNCHANGED << tickets, inbound, file, handler_frame >>

\* Lines 220-221: if the returned record still says TICKET_CREATION, the dict
\* the handler holds is stored with update_session(wa_id, context=context).
h_sync(t) ==
    LET u == handler[t].user
        o == handler[t].ctx
        stores == u \in DOMAIN sessions /\ sessions[u].state = "TICKET_CREATION"
        sc == IF stores THEN [stored_ctx EXCEPT ![u] = o] ELSE stored_ctx
        hd == [handler EXCEPT ![t].pc = "reply", ![t].ctx = NoObj]
    IN
    /\ handler[t].pc = "sync"
    /\ CanAcquire(t)
    /\ sessions' = IF stores
                     THEN [sessions EXCEPT ![u] =
                              UpdatedSession(@, [context |-> heap[o]], now)]
                     ELSE sessions
    /\ stored_ctx' = sc
    /\ heap' = Collected(heap, sc, hd)
    /\ handler' = hd
    /\ UNCHANGED << tickets, inbound, file, handler_frame >>

\* Lines 224-230: update_session(wa_id, state='TICKET_CREATION',
\* context={'ticket_step': 'subject'}); a ticket flow opens.
h_intent(t) ==
    LET u == handler[t].user
        o == NewObj
        d == << << "ticket_step", "subject" >> >>
        sc == [stored_ctx EXCEPT ![u] = o]
        hd == [handler EXCEPT ![t].pc = "reply"]
    IN
    /\ handler[t].pc = "intent"
    /\ CanAcquire(t)
    /\ u \in DOMAIN sessions
    /\ sessions' = [sessions EXCEPT ![u] =
                       UpdatedSession(@, [state |-> "TICKET_CREATION", context |-> d], now)]
    /\ stored_ctx' = sc
    /\ heap' = Collected([heap EXCEPT ![o] = d], sc, hd)
    /\ handler' = hd
    /\ tickets' = 0
    /\ UNCHANGED << inbound, file, handler_frame >>

\* Lines 232-238: generate_response; the store is not touched.
h_respond(t) ==
    /\ handler[t].pc = "respond"
    /\ handler' = [handler EXCEPT ![t].pc = "reply"]
    /\ UNCHANGED << sessions, heap, stored_ctx, tickets, inbound, file, handler_frame >>

\* Lines 246-250: add_message_to_history(wa_id, 'assistant', response), then
\* the reply is sent.
h_reply(t) ==
    LET u == handler[t].user IN
    /\ handler[t].pc = "reply"
    /\ CanAcquire(t)
    /\ sessions' = IF u \in DOMAIN sessions
                     THEN [sessions EXCEPT ![u] =
                              AppendedSession(@, "assistant", "response", now)]
                     ELSE sessions
    /\ handler' = [handler EXCEPT ![t].pc = "save"]
    /\ UNCHANGED << heap, stored_ctx, tickets, inbound, file, handler_frame >>

\* Line 256: save_sessions('sessions.json'); the handler returns.
h_save(t) ==
    /\ handler[t].pc = "save"
    /\ CanAcquire(t)
    /\ file' = SavedFile(sessions)
    /\ handler' = [handler EXCEPT ![t] = HandlerIdle]
    /\ UNCHANGED << sessions, heap, stored_ctx, tickets, inbound, handler_frame >>

\* Lines 136-256, run by thread t; `bodies` are the messages it is handed.
process_whatsapp_message(t, bodies) ==
    \/ \E u \in wa_ids, body \in bodies : h_receive(t, u, body)
    \/ h_add_user(t)
    \/ h_branch(t)
    \/ h_greet(t)
    \/ h_collect(t)
    \/ h_confirm(t)
    \/ h_reset(t)
    \/ h_sync(t)
    \/ h_intent(t)
    \/ h_respond(t)
    \/ h_reply(t)
    \/ h_save(t)

\* ------------------------------------------------------ cleanup thread --
\* What one scheduler action did: the user, the message, the notifier's outcome
\* ("none" when no notifier is registered).
LogEntry(u, kind, outcome) == [user |-> u, kind |-> kind, outcome |-> outcome]

Processed(kind) == {tick_log[i].user : i \in {j \in DOMAIN tick_log : tick_log[j].kind = kind}}

\* A pass without the try/except: an exception would end it.
AfterNotifyAbortsPass(outcome, acquire_pc, loop_pc) ==
    IF outcome = "raised" THEN "pass_done" ELSE acquire_pc

\* Lines 165-180 and 186-204: the try/except around the notifier call.  A
\* notifier that raises skips the locked block and the loop goes on.
AfterNotify(outcome, acquire_pc, loop_pc) ==
    IF outcome = "raised" THEN loop_pc ELSE acquire_pc

\* Lines 131, 137: the sleep is over and the lock is taken for the scan.
cleanup_wake ==
    /\ sched_pc = "sleep"
    /\ CanAcquire(Cleanup)
    /\ lock' = Cleanup
    /\ sched_pc' = "scan"
    /\ UNCHANGED << ret, file, handler_vars >>
    /\ UNCHANGED << sessions, session_timeout, send_message_func, now, wa_ids, fg,
                    current_time, users_to_warn, users_to_close, sched_user, tick_log,
                    tick_due, tick_fg, notified, created_count >>

\* Lines 138-151: the scan; the lock is released at its end.
cleanup_scan ==
    /\ sched_pc = "scan"
    /\ current_time' = now
    /\ users_to_close' = {u \in DOMAIN sessions : ShouldClose(sessions[u], now)}
    /\ users_to_warn' = {u \in DOMAIN sessions : ShouldWarn(sessions[u], now)}
    /\ sessions' = [u \in DOMAIN sessions |-> Scanned(sessions[u], now)]
    /\ lock' = NoOne
    /\ sched_pc' = "warn_loop"
    /\ tick_log' = << >>
    /\ tick_due' = {u \in DOMAIN sessions : InactiveTime(sessions[u], now) >= session_timeout}
    /\ tick_fg' = NoNotes
    /\ UNCHANGED << ret, file, handler_vars >>
    /\ UNCHANGED << session_timeout, send_message_func, now, wa_ids, fg, sched_user,
                    notified, created_count >>

\* A warning loop that would record nothing while no notifier is registered.
StartWarningNeedingNotifier(holder) ==
    /\ sched_pc = "warn_loop"
    /\ lock' = holder
    /\ IF users_to_warn \ Processed("warning") = {}
         THEN /\ sched_pc' = "close_loop"
              /\ UNCHANGED << sched_user, tick_log >>
         ELSE \E u \in users_to_warn \ Processed("warning") :
                /\ sched_user' = u
                /\ IF send_message_func
                     THEN /\ sched_pc' = "warn_notify"
                          /\ UNCHANGED tick_log
                     ELSE /\ sched_pc' = "warn_loop"
                          /\ tick_log' = Append(tick_log, LogEntry(u, "warning", "none"))
    /\ UNCHANGED << ret, file, handler_vars >>
    /\ UNCHANGED << sessions, session_timeout, send_message_func, now, wa_ids, fg,
                    current_time, users_to_warn, users_to_close,
                    tick_due, tick_fg, notified, created_count >>

\* Lines 154-155, 165-168: the next user to warn; without a notifier the call is
\* skipped.  `holder` is the owner of the lock as the action starts.
StartWarning(holder) ==
    /\ sched_pc = "warn_loop"
    /\ lock' = holder
    /\ IF users_to_warn \ Processed("warning") = {}
         THEN /\ sched_pc' = "close_loop"
              /\ UNCHANGED << sched_user, tick_log >>
         ELSE \E u \in users_to_warn \ Processed("warning") :
                /\ sched_user' = u
                /\ IF send_message_func
                     THEN /\ sched_pc' = "warn_notify"
                          /\ UNCHANGED tick_log
                     ELSE /\ sched_pc' = "warn_acquire"
                          /\ tick_log' = Append(tick_log, LogEntry(u, "warning", "none"))
    /\ UNCHANGED << ret, file, handler_vars >>
    /\ UNCHANGED << sessions, session_timeout, send_message_func, now, wa_ids, fg,
                    current_time, users_to_warn, users_to_close,
                    tick_due, tick_fg, notified, created_count >>

\* The warning loop as it would run if the lock were kept over the notifier call.
warn_next_holding_lock == CanAcquire(Cleanup) /\ StartWarning(Cleanup)

\* The warning action starts without the lock (line 165: no `with` yet).
warn_next == StartWarning(lock)

\* Line 169: the notifier is called with the warning and returns or raises.
warn_notify ==
    /\ sched_pc = "warn_notify"
    /\ \E outcome \in NotifierOutcomes :
         /\ tick_log' = Append(tick_log, LogEntry(sched_user, "warning", outcome))
         /\ sched_pc' = AfterNotify(outcome, "warn_acquire", "warn_loop")
    /\ notified' = [notified EXCEPT ![sched_user] = Append(@, "warning")]
    /\ UNCHANGED << ret, file, handler_vars >>
    /\ UNCHANGED << sessions, session_timeout, send_message_func, lock, now, wa_ids, fg,
                    current_time, users_to_warn, users_to_close, sched_user,
                    tick_due, tick_fg, created_count >>

\* Line 172: the lock is taken to record the warning.
warn_acquire ==
    /\ sched_pc = "warn_acquire"
    /\ CanAcquire(Cleanup)
    /\ lock' = Cleanup
    /\ sched_pc' = "warn_record"
    /\ UNCHANGED << ret, file, handler_vars >>
    /\ UNCHANGED << sessions, session_timeout, send_message_func, now, wa_ids, fg,
                    current_time, users_to_warn, users_to_close, sched_user, tick_log,
                    tick_due, tick_fg, notified, created_count >>

\* A warning action that would set the flag itself while recording.
warn_record_setting_flag ==
    /\ sched_pc = "warn_record"
    /\ sessions' =
         IF sched_user \in DOMAIN sessions
           THEN [sessions EXCEPT ![sched_user].message_history =
                    Append(@, HistoryEntry("assistant", WarningMessage, now)),
                                 ![sched_user].inactivity_warning_sent = TRUE]
           ELSE sessions
    /\ lock' = NoOne
    /\ sched_pc' = "warn_loop"
    /\ UNCHANGED << ret, file, handler_vars >>
    /\ UNCHANGED << session_timeout, send_message_func, now, wa_ids, fg,
                    current_time, users_to_warn, users_to_close, sched_user, tick_log,
                    tick_due, tick_fg, notified, created_count >>

\* Lines 173-178: the warning is appended to the history, last_activity untouched.
warn_record ==
    /\ sched_pc = "warn_record"
    /\ sessions' =
         IF sched_user \in DOMAIN sessions
           THEN [sessions EXCEPT ![sched_user].message_history =
                    Append(@, HistoryEntry("assistant", WarningMessage, now))]
           ELSE sessions
    /\ lock' = NoOne
    /\ sched_pc' = "warn_loop"
    /\ UNCHANGED << ret, file, handler_vars >>
    /\ UNCHANGED << session_timeout, send_message_func, now, wa_ids, fg,
                    current_time, users_to_warn, users_to_close, sched_user, tick_log,
                    tick_due, tick_fg, notified, created_count >>

\* Lines 158-159, 186-189: the next user to close; after the last one the pass is over.
close_next ==
    /\ sched_pc = "close_loop"
    /\ IF users_to_close \ Processed("closing") = {}
         THEN /\ sched_pc' = "pass_done"
              /\ UNCHANGED << sched_user, tick_log >>
         ELSE \E u \in users_to_close \ Processed("closing") :
                /\ sched_user' = u
                /\ IF send_message_func
                     THEN /\ sched_pc' = "close_notify"
                          /\ UNCHANGED tick_log
                     ELSE /\ sched_pc' = "close_acquire"
                          /\ tick_log' = Append(tick_log, LogEntry(u, "closing", "none"))
    /\ UNCHANGED << ret, file, handler_vars >>
    /\ UNCHANGED << sessions, session_timeout, send_message_func, lock, now, wa_ids, fg,
                    current_time, users_to_warn, users_to_close,
                    tick_due, tick_fg, notified, created_count >>

\* Line 190: the notifier is called with the closing message and returns or raises.
close_notify ==
    /\ sched_pc = "close_notify"
    /\ \E outcome \in NotifierOutcomes :
         /\ tick_log' = Append(tick_log, LogEntry(sched_user, "closing", outcome))
         /\ sched_pc' = AfterNotify(outcome, "close_acquire", "close_loop")
    /\ notified' = [notified EXCEPT ![sched_user] = Append(@, "closing")]
    /\ UNCHANGED << ret, file, handler_vars >>
    /\ UNCHANGED << sessions, session_timeout, send_message_func, lock, now, wa_ids, fg,
                    current_time, users_to_warn, users_to_close, sched_user,
                    tick_due, tick_fg, created_count >>

\* Line 193: the lock is taken to delete the session.
close_acquire ==
    /\ sched_pc = "close_acquire"
    /\ CanAcquire(Cleanup)
    /\ lock' = Cleanup
    /\ sched_pc' = "close_record"
    /\ UNCHANGED << ret, file, handler_vars >>
    /\ UNCHANGED << sessions, session_timeout, send_message_func, now, wa_ids, fg,
                    current_time, users_to_warn, users_to_close, sched_user, tick_log,
                    tick_due, tick_fg, notified, created_count >>

\* Lines 194-202: the closing message is appended and the session deleted, if
\* the user is (still, or again) in the store.
close_record ==
    /\ sched_pc = "close_record"
    /\ sessions' = IF sched_user \in DOMAIN sessions
                     THEN Remove(sessions, sched_user)
                     ELSE sessions
    /\ created_count' = [created_count EXCEPT ![sched_user] = 0]
    /\ lock' = NoOne
    /\ sched_pc' = "close_loop"
    /\ UNCHANGED << ret, file, handler_vars >>
    /\ UNCHANGED << session_timeout, send_message_func, now, wa_ids, fg,
                    current_time, users_to_warn, users_to_close, sched_user, tick_log,
                    tick_due, tick_fg, notified >>

\* Lines 130-131: back to the top of the loop, time.sleep(30).
cleanup_sleep ==
    /\ sched_pc = "pass_done"
    /\ sched_pc' = "sleep"
    /\ users_to_warn' = {}
    /\ users_to_close' = {}
    /\ sched_user' = "-"
    /\ tick_log' = << >>
    /\ tick_due' = {}
    /\ tick_fg' = NoNotes
    /\ UNCHANGED << ret, file, handler_vars >>
    /\ UNCHANGED << sessions, session_timeout, send_message_func, lock, now, wa_ids, fg,
                    current_time, notified, created_count >>

Cleanup_thread ==
    \/ cleanup_wake
    \/ cleanup_scan
    \/ warn_next
    \/ warn_notify
    \/ warn_acquire
    \/ warn_record
    \/ close_next
    \/ close_notify
    \/ close_acquire
    \/ close_record
    \/ cleanup_sleep

\* The cleanup thread while send_message_func is None: lines 168 and 189 skip
\* the notifier calls.
Cleanup_thread_no_notifier ==
    \/ cleanup_wake
    \/ cleanup_scan
    \/ warn_next
    \/ warn_acquire
    \/ warn_record
    \/ close_next
    \/ close_acquire
    \/ close_record
    \/ cleanup_sleep

\* ------------------------------------------------------- specifications --
Next ==
    \/ Advance
    \/ set_send_message_function
    \/ \E t \in Threads, u \in wa_ids : get_session_call(t, u)
    \/ \E t \in Threads : get_session_enter(t)
    \/ \E t \in Threads : get_session_return(t)
    \/ \E u \in wa_ids, kwargs \in UpdateInputs : update_session(u, kwargs)
    \/ \E u \in wa_ids : end_session(u)
    \/ \E u \in wa_ids : add_message_to_history(u, "user", "hola")
    \/ Cleanup_thread

\* One user id, every operation, two foreground threads.
Spec == Init /\ [][Next]_vars

NextPair ==
    \/ Advance
    \/ set_send_message_function
    \/ \E u \in wa_ids : get_session_call("t1", u)
    \/ get_session_enter("t1")
    \/ get_session_return("t1")
    \/ Cleanup_thread

\* Two user ids; the foreground only opens sessions, from one thread.
SpecPair == InitPair /\ [][NextPair]_vars

InitStore == InitWith({"u1"}, {2})

NextStore ==
    \/ Advance
    \/ \E u \in wa_ids : get_session_call("t1", u)
    \/ get_session_enter("t1")
    \/ get_session_return("t1")
    \/ \E u \in wa_ids, kwargs \in AnyFieldInputs : update_session(u, kwargs)
    \/ \E u \in wa_ids : end_session(u)
    \/ \E u \in wa_ids : add_message_to_history(u, "assistant", "hola!")
    \/ \E u \in wa_ids : is_session_active(u)
    \/ \E u \in wa_ids, limit \in 0..MaxLimit : get_message_history(u, limit)
    \/ Cleanup_thread_no_notifier

\* One user id, one foreground thread, every store operation with any
\* arguments, the cleanup thread running with no notifier registered.
SpecStore == InitStore /\ [][NextStore]_vars

NextUsers ==
    \/ Advance
    \/ \E u \in wa_ids : get_session_call("t1", u)
    \/ get_session_enter("t1")
    \/ get_session_return("t1")
    \/ update_session("u1", [unknown_key |-> "x"])
    \/ end_session("u1")
    \/ add_message_to_history("u1", "user", "hola")
    \/ Cleanup_thread_no_notifier

\* Two user ids, one foreground thread: both users open sessions, the first
\* one also updates, appends and ends; the cleanup thread runs with no
\* notifier registered.
SpecUsers == InitPair /\ [][NextUsers]_vars

NextFile ==
    \/ Advance
    \/ \E u \in wa_ids : get_session_call("t1", u)
    \/ get_session_enter("t1")
    \/ get_session_return("t1")
    \/ \E u \in wa_ids : end_session(u)
    \/ \E u \in wa_ids : update_session(u, [state |-> "AWAITING_QUERY"])
    \/ \E u \in wa_ids : add_message_to_history(u, "user", "hola")
    \/ save_sessions_copy("t1")
    \/ save_sessions_write("t1")
    \/ \E f \in FileInputs : load_sessions(f)

\* One user id; its session is opened, updated, appended to, ended, saved
\* and loaded.  No cleanup thread: the notice flags stay false.
SpecFile == InitStore /\ [][NextFile]_vars

NextFilePair ==
    \/ Advance
    \/ \E u \in wa_ids : get_session_call("t1", u)
    \/ get_session_enter("t1")
    \/ get_session_return("t1")
    \/ \E u \in wa_ids : end_session(u)
    \/ save_sessions_copy("t1")
    \/ save_sessions_write("t1")
    \/ \E f \in FileInputs : load_sessions(f)

\* Two user ids; sessions are opened, ended, saved and loaded.
SpecFilePair == InitPair /\ [][NextFilePair]_vars

NextLive ==
    \/ Advance
    \/ \E t \in Threads, u \in wa_ids : get_session_call(t, u)
    \/ \E t \in Threads : get_session_enter(t)
    \/ \E t \in Threads : get_session_return(t)
    \/ \E t \in Threads : save_sessions_copy(t)
    \/ \E t \in Threads : save_sessions_write(t)
    \/ \E u \in wa_ids : update_session(u, [unknown_key |-> "x"])
    \/ Cleanup_thread_no_notifier

\* Every thread keeps running: a thread inside a locked block reaches its end
\* (weak fairness on the steps that release the lock), and a thread waiting for
\* the lock gets it if the lock is free again and again (strong fairness on
\* the acquisition in get_session).
Fairness ==
    /\ \A t \in Threads : SF_vars(get_session_enter(t))
    /\ \A t \in Threads : WF_vars(get_session_return(t))
    /\ \A t \in Threads : WF_vars(save_sessions_write(t))
    /\ WF_vars(cleanup_scan)
    /\ WF_vars(warn_record)
    /\ WF_vars(close_record)

\* One user id, two foreground threads that open sessions, update and save,
\* the cleanup thread with no notifier registered, under fair scheduling.
SpecLive == InitStore /\ [][NextLive]_vars /\ Fairness

NextCaller ==
    \/ Advance
    \/ \E u \in wa_ids : get_session_call("t1", u)
    \/ get_session_enter("t1")
    \/ get_session_return("t1")
    \/ \E u \in wa_ids : caller_writes_context(u)
    \/ \E u \in wa_ids : update_session(u, [state |-> "AWAITING_QUERY", context |-> << >>])
    \/ \E u \in wa_ids : end_session(u)
    \/ Cleanup_thread_no_notifier

\* One user id and the webhook handler as caller: it opens the session, writes
\* into the returned record, updates and ends; the cleanup thread runs with no
\* notifier registered.
SpecCaller == InitStore /\ [][NextCaller]_vars

NextHandler ==
    \/ process_whatsapp_message("t1", Bodies)
    \/ process_whatsapp_message("t2", {"si"})

\* One user id whose messages the webhook hands to two threads, the second of
\* which gets the messages "si"; nothing removes the session.
SpecHandler == InitStore /\ [][NextHandler]_vars

NextHandlerOneAtATime == process_whatsapp_message("t1", Bodies)

\* The same user's messages handled one after the other.
SpecHandlerOneAtATime == InitStore /\ [][NextHandlerOneAtATime]_vars

\* --------------------------------------------------------------- claims --
Count(seq, x) == Cardinality({i \in DOMAIN seq : seq[i] = x})

\* The notifier calls this pass made for user u with message `kind`.
Calls(u, kind) ==
    {i \in DOMAIN tick_log : /\ tick_log[i].user = u
                             /\ tick_log[i].kind = kind
                             /\ tick_log[i].outcome \in NotifierOutcomes}

NotifyPcs == {"warn_notify", "close_notify"}

SchedPcs == {"sleep", "scan", "warn_loop", "warn_notify", "warn_acquire", "warn_record",
             "close_loop", "close_notify", "close_acquire", "close_record", "pass_done"}

\* C1: within one inactivity window of a user, a close notification is attempted
\* only after exactly one warning notification of the same window, and a pass
\* never attempts both for the same user.
C1_WarningBeforeClose ==
    \A u \in Users :
        /\ \A i \in DOMAIN notified[u] :
              notified[u][i] = "closing" => (i = 2 /\ notified[u][1] = "warning")
        /\ Calls(u, "warning") = {} \/ Calls(u, "closing") = {}

\* C2: when a pass is over, every user whose session the scan found inactive for
\* session_timeout or more, and that no foreground operation touched during the
\* pass, is absent from the store and got exactly one closing notification
\* (a notifier being registered throughout the pass).
C2_ExpiredSessionClosed ==
    (sched_pc = "pass_done" /\ \A i \in DOMAIN tick_log : tick_log[i].outcome # "none")
        => \A u \in tick_due :
              tick_fg[u] = "none" =>
                 /\ u \notin DOMAIN sessions
                 /\ Cardinality(Calls(u, "closing")) = 1

\* C3: between two consecutive activity events on a user the notifier is invoked
\* at most once with the warning and at most once with the closing message.
C3_AtMostOncePerWindow ==
    \A u \in Users :
        /\ Count(notified[u], "warning") <= 1
        /\ Count(notified[u], "closing") <= 1

\* C4: the close action never removes a session that a foreground activity
\* touched after the scan marked it for closing.
C4_CloseSkipsFreshActivity ==
    [][ (close_record /\ tick_fg[sched_user] = "activity")
          => sched_user \in DOMAIN sessions' ]_vars

\* C5: right after get_session, update_session or add_message_to_history on a
\* user, that user's session (if it has one) has both notice flags false,
\* whatever the flags were and whatever fields update_session was given.
C5_FlagsClearedByActivity ==
    [][ \A u \in Users :
          ( \/ \E t \in Threads : get_session_return(t) /\ fg[t].user = u
            \/ \E kwargs \in UpdateInputs : update_session(u, kwargs)
            \/ add_message_to_history(u, "user", "hola") )
          => ( u \in DOMAIN sessions' =>
                 /\ ~sessions'[u].inactivity_warning_sent
                 /\ ~sessions'[u].closing_notice_sent ) ]_vars

\* C5 witness: a session the scan had flagged for a warning has been touched by
\* a foreground activity during the pass and has both flags false again.
C5_Witness ==
    \E u \in users_to_warn :
        /\ tick_fg[u] = "activity"
        /\ u \in DOMAIN sessions
        /\ ~sessions[u].inactivity_warning_sent
        /\ ~sessions[u].closing_notice_sent

\* C6: while the scheduler sleeps between passes no session in the store has
\* closing_notice_sent set.
C6_NoClosingFlagBetweenPasses ==
    sched_pc = "sleep" => \A u \in DOMAIN sessions : ~sessions[u].closing_notice_sent

\* C7: a pass marks no user both for warning and for closing, and sends no
\* warning to a user whose inactivity at the scan was session_timeout or more.
C7_ClosePriority ==
    /\ users_to_warn \cap users_to_close = {}
    /\ \A u \in tick_due : Calls(u, "warning") = {}

\* C8: concurrent get_session calls create one record per user: what the
\* membership test saw still holds when the call creates or refreshes, so no
\* record in the store is replaced by a second creation.
C8_SingleCreation ==
    /\ \A u \in Users : created_count[u] <= 1
    /\ \A t \in Threads :
          fg[t].pc = "locked" => (fg[t].found <=> fg[t].user \in DOMAIN sessions)

\* C8 witness: one thread is creating the record of a user with no session
\* while the other thread's get_session call for the same user waits.
C8_Witness ==
    \E t, o \in Threads :
        /\ t # o
        /\ fg[t].pc = "locked" /\ ~fg[t].found
        /\ fg[o].pc = "called" /\ fg[o].user = fg[t].user
        /\ fg[t].user \notin DOMAIN sessions

\* C9: a notifier failure does not stop the pass: when the pass is over every
\* user the scan marked has had its action run, and the cleanup thread is
\* always at a position of its loop.
C9_FailureDoesNotStopPass ==
    /\ sched_pc \in SchedPcs
    /\ sched_pc = "pass_done" =>
          /\ Processed("warning") = users_to_warn
          /\ Processed("closing") = users_to_close

\* C9 witness: a finished pass whose first notifier call failed or raised and
\* whose second call, for the other user, was made and succeeded.
C9_Witness ==
    /\ sched_pc = "pass_done"
    /\ Len(tick_log) = 2
    /\ tick_log[1].outcome \in {"failed", "raised"}
    /\ tick_log[2].user # tick_log[1].user
    /\ tick_log[2].outcome = "ok"

\* C10: while a notifier call is in progress the cleanup thread does not own the
\* lock, and unless a foreground thread is inside get_session every
\* foreground operation can take the lock.
C10_NotifyOutsideLock ==
    sched_pc \in NotifyPcs =>
        /\ lock # Cleanup
        /\ (\A t \in Threads : fg[t].pc # "locked") =>
              \A u \in wa_ids :
                 /\ ENABLED end_session(u)
                 /\ \A kwargs \in UpdateInputs : ENABLED update_session(u, kwargs)

\* C10 witness: a foreground operation has completed on a user while the
\* notifier call for that user was in progress.
C10_Witness ==
    /\ sched_pc \in NotifyPcs
    /\ tick_fg[sched_user] # "none"
    /\ lock = NoOne

\* C11: get_session for a user id with no session in the store creates a
\* record with state INITIAL, empty context, empty message_history, thread_id
\* None, both notice flags false and both timestamps at the call's time,
\* whatever a removed session of that id held.
C11_FreshSession ==
    [][ \A t \in Threads :
          (get_session_return(t) /\ fg[t].user \notin DOMAIN sessions)
            => LET s == sessions'[fg[t].user] IN
               /\ s.state = "INITIAL"
               /\ s.context = << >>
               /\ s.message_history = << >>
               /\ s.thread_id = "None"
               /\ ~s.inactivity_warning_sent
               /\ ~s.closing_notice_sent
               /\ s.created_at = now
               /\ s.last_activity = now ]_vars

\* C11 witness: a user whose session a pass closed has a session again, created
\* after the scan, with nothing in it.
C11_Witness ==
    \E u \in users_to_close :
        /\ u \in Processed("closing")
        /\ tick_fg[u] = "activity"
        /\ u \in DOMAIN sessions
        /\ sessions[u].created_at >= current_time
        /\ sessions[u].state = "INITIAL"
        /\ sessions[u].message_history = << >>


\* The last n entries of a sequence, in their order.
LastEntries(seq, n) == SubSeq(seq, Len(seq) - n + 1, Len(seq))

\* C12: get_message_history(u, limit), for any limit >= 0, returns the last
\* min(limit, len) entries of u's message_history in their stored order, and
\* the empty list when u has no session.
C12_RecentHistory ==
    [][ \A u \in Users, limit \in 0..MaxLimit :
          get_message_history(u, limit)
            => ret'.value =
                 IF u \in DOMAIN sessions
                   THEN LastEntries(sessions[u].message_history,
                                    Min(limit, Len(sessions[u].message_history)))
                   ELSE << >> ]_vars


Refreshed == {"last_activity", "inactivity_warning_sent", "closing_notice_sent"}

\* C13: update_session on an existing session leaves the record's key set as it
\* was: keys of the arguments that the record does not have are ignored, every
\* key it has and the arguments name (other than last_activity and the two
\* flags) holds the given value, and every other key (other than those three)
\* is unchanged.
C13_NoKeyInjected ==
    [][ \A u \in Users, kwargs \in AnyFieldInputs :
          (update_session(u, kwargs) /\ u \in DOMAIN sessions)
            => /\ u \in DOMAIN sessions'
               /\ DOMAIN sessions'[u] = DOMAIN sessions[u]
               /\ \A k \in (DOMAIN sessions[u]) \ Refreshed :
                     sessions'[u][k] = IF k \in DOMAIN kwargs THEN kwargs[k] ELSE sessions[u][k] ]_vars

\* C13 witness: an update that named a stored key together with an unknown one
\* has been applied: the state is the given one and the key set is unchanged.
C13_Witness ==
    \E u \in DOMAIN sessions :
        /\ sessions[u].state = "TICKET_CREATION"
        /\ DOMAIN sessions[u] = DOMAIN NewSession(0)


\* C14: update_session and add_message_to_history for a user id with no session
\* return normally and leave the whole store as it was: no session is created
\* and no other user's session changes.
C14_AbsentUserNoOp ==
    [][ \A u \in Users :
          ( /\ u \notin DOMAIN sessions
            /\ \/ \E kwargs \in AnyFieldInputs : update_session(u, kwargs)
               \/ \E role \in {"user", "assistant"}, content \in {"hola", "hola!"} :
                     add_message_to_history(u, role, content) )
            => (sessions' = sessions /\ ret' = NoReturn) ]_vars

\* C14 witness: during a pass that marked a user for closing, an update or an
\* append for that user found no session and was ignored, while the other
\* user has a session.
C14_Witness ==
    \E u \in users_to_close, v \in DOMAIN sessions :
        /\ u \notin DOMAIN sessions
        /\ tick_fg[u] = "ignored"
        /\ v # u


\* C15: end_session(u) removes u's session if there is one and changes nothing
\* otherwise, every other user's session staying as it was; and among
\* get_session, update_session, add_message_to_history, end_session and the
\* steps of the cleanup thread, only a get_session for u puts an absent u back
\* into the store.
C15_EndSession ==
    [][ \A u \in Users :
          /\ end_session(u) =>
                /\ DOMAIN sessions' = (DOMAIN sessions) \ {u}
                /\ \A v \in DOMAIN sessions' : sessions'[v] = sessions[v]
          /\ (u \notin DOMAIN sessions /\ u \in DOMAIN sessions') =>
                \E t \in Threads : get_session_return(t) /\ fg[t].user = u ]_vars

\* C15 witness: the cleanup thread is about to record a warning for a user whose
\* session end_session removed after the scan, the other user having a session.
C15_Witness ==
    \E v \in DOMAIN sessions :
        /\ sched_pc = "warn_record"
        /\ sched_user # v
        /\ sched_user \notin DOMAIN sessions
        /\ tick_fg[sched_user] = "other"


\* C16: is_session_active(u) returns true exactly when u has a session and
\* now < last_activity + session_timeout, and the call leaves the store as it
\* was (last_activity and the notice flags included).
C16_IsActivePureRead ==
    [][ \A u \in Users :
          is_session_active(u)
            => /\ ret'.value = ( /\ u \in DOMAIN sessions
                                 /\ now < sessions[u].last_activity + session_timeout )
               /\ sessions' = sessions ]_vars

\* C16 witness: the call has returned false for a session that is in the store,
\* expired and flagged for closing, and the flag is still set.
C16_Witness ==
    /\ ret.op = "is_session_active"
    /\ ~ret.value
    /\ ret.user \in DOMAIN sessions
    /\ sessions[ret.user].closing_notice_sent
    /\ now = sessions[ret.user].last_activity + session_timeout


Malformed(f) ==
    \/ f.kind # "json"
    \/ \E u \in DOMAIN f.records : RecordError(f.records[u]) # "None"

\* C18: load_sessions of a missing or malformed file raises nothing and leaves
\* the store exactly as it was.
C18_BadFileIgnored ==
    [][ \A f \in FileInputs :
          (load_sessions(f) /\ Malformed(f))
            => (sessions' = sessions /\ ret'.raised = "None") ]_vars


IsPrefix(a, b) == Len(a) <= Len(b) /\ SubSeq(b, 1, Len(a)) = a

\* C19: while a session exists, every step keeps its previous message_history
\* as a prefix of the new one, and add_message_to_history appends exactly one
\* entry, with the given role and content.
C19_HistoryAppendOnly ==
    [][ \A u \in Users :
          (u \in DOMAIN sessions /\ u \in DOMAIN sessions')
            => /\ IsPrefix(sessions[u].message_history, sessions'[u].message_history)
               /\ \A role \in {"user", "assistant"}, content \in {"hola", "hola!"} :
                     add_message_to_history(u, role, content)
                       => sessions'[u].message_history =
                            Append(sessions[u].message_history,
                                   [role |-> role, content |-> content, timestamp |-> now]) ]_vars

\* C20: every session in the store has last_activity >= created_at.
C20_ActivityAfterCreation ==
    \A u \in DOMAIN sessions : sessions[u].last_activity >= sessions[u].created_at


\* The last entry of u's history is a warning recorded during this pass.
WarningRecorded(u) ==
    LET h == sessions[u].message_history IN
    /\ Len(h) > 0
    /\ h[Len(h)].role = "assistant"
    /\ h[Len(h)].content = WarningMessage
    /\ h[Len(h)].timestamp >= current_time

\* C21: when a pass is over, for every notifier call it made on a user that no
\* foreground operation touched during the pass, whatever the call's outcome
\* (success, failure returned, exception): a warned session is in the store
\* with inactivity_warning_sent set and the warning at the end of its history,
\* and a session marked for closing is gone.
C21_OutcomeIndependent ==
    sched_pc = "pass_done" =>
        \A i \in DOMAIN tick_log :
            LET u == tick_log[i].user IN
            (tick_log[i].outcome \in NotifierOutcomes /\ tick_fg[u] = "none")
              => IF tick_log[i].kind = "warning"
                   THEN /\ u \in DOMAIN sessions
                        /\ sessions[u].inactivity_warning_sent
                        /\ WarningRecorded(u)
                   ELSE u \notin DOMAIN sessions


\* C22: a warning action that records after a foreground activity on the same
\* user (the activity having come after the scan) leaves last_activity as the
\* activity set it and leaves both notice flags false.
C22_WarningKeepsActivity ==
    [][ ( /\ warn_record
          /\ sched_user \in DOMAIN sessions
          /\ tick_fg[sched_user] = "activity" )
          => /\ sessions[sched_user].last_activity >= current_time
             /\ sessions'[sched_user].last_activity = sessions[sched_user].last_activity
             /\ ~sessions'[sched_user].inactivity_warning_sent
             /\ ~sessions'[sched_user].closing_notice_sent ]_vars

\* C22 witness: the warning of this pass has been recorded, at a later time
\* than the activity that followed the scan, and the flags are false.
C22_Witness ==
    /\ sched_pc = "warn_loop"
    /\ sched_user \in Processed("warning")
    /\ tick_fg[sched_user] = "activity"
    /\ sched_user \in DOMAIN sessions
    /\ WarningRecorded(sched_user)
    /\ LET s == sessions[sched_user] IN
       /\ s.message_history[Len(s.message_history)].timestamp > s.last_activity
       /\ s.last_activity >= current_time
       /\ ~s.inactivity_warning_sent
       /\ ~s.closing_notice_sent


\* C23: while save_sessions writes the file it does not own the lock, and every
\* foreground operation on any user can take the lock.
C23_SaveWritesOutsideLock ==
    \A t \in Threads :
        fg[t].pc = "writing" =>
            /\ lock # t
            /\ \A u \in wa_ids :
                  /\ ENABLED end_session(u)
                  /\ ENABLED update_session(u, [state |-> "AWAITING_QUERY"])


\* C24: under fair scheduling every call that is waiting for the lock or is
\* inside a locked block returns, and a lock that is owned is released, so a
\* caller of any store operation finds the lock free again; no reachable state
\* is without a next step.
C24_NoDeadlock ==
    /\ \A t \in Threads : (fg[t].pc # "idle") ~> (fg[t].pc = "idle")
    /\ (lock # NoOne) ~> (lock = NoOne)
    /\ [](ENABLED NextLive)

\* C24 witness: one thread's get_session waits for the lock while the other
\* thread writes the file inside its locked block and the cleanup thread waits
\* to record a warning.
C24_Witness ==
    \E t, o \in Threads :
        /\ fg[t].pc = "called"
        /\ fg[o].pc = "writing"
        /\ lock = o
        /\ sched_pc = "warn_acquire"


\* C25: for a session the scan finds inactive for at least the warning threshold
\* and less than session_timeout, not yet warned and not touched by the
\* foreground during the pass, with a notifier registered: the scan sets only
\* inactivity_warning_sent, the warning action appends only one assistant
\* entry (the warning), and when the pass is over the notifier has been called
\* once with the warning, the session is in the store with the flag set, the
\* warning at the end of its history, closing_notice_sent false and
\* last_activity as the scan saw it.
C25_WarningTick ==
    /\ [][ \A u \in DOMAIN sessions :
             /\ (cleanup_scan /\ ShouldWarn(sessions[u], now))
                  => sessions'[u] = [sessions[u] EXCEPT !.inactivity_warning_sent = TRUE]
             /\ (warn_record /\ u = sched_user /\ tick_fg[u] = "none")
                  => sessions'[u] =
                       [sessions[u] EXCEPT !.message_history =
                           Append(@, [role |-> "assistant", content |-> WarningMessage,
                                      timestamp |-> now])] ]_vars
    /\ [](sched_pc = "pass_done" =>
            \A u \in users_to_warn \ tick_due :
               (tick_fg[u] = "none" /\ Calls(u, "warning") # {})
                 => /\ Cardinality(Calls(u, "warning")) = 1
                    /\ u \in DOMAIN sessions
                    /\ sessions[u].inactivity_warning_sent
                    /\ ~sessions[u].closing_notice_sent
                    /\ WarningRecorded(u)
                    /\ current_time - sessions[u].last_activity >= inactivity_warning
                    /\ current_time - sessions[u].last_activity < session_timeout)


\* C26: the scan marks a session for closing exactly when its inactivity is
\* >= session_timeout (and it has no closing notice yet), and for warning
\* exactly when its inactivity is >= session_timeout / 2, it is not marked for
\* closing and it has no warning yet; the warning threshold is at most the
\* close threshold.  (2 * inactivity >= session_timeout states the comparison
\* with the exact half.)
C26_Thresholds ==
    [][ cleanup_scan =>
          /\ inactivity_warning <= session_timeout
          /\ \A u \in DOMAIN sessions :
                /\ u \in users_to_close' <=>
                      ( /\ InactiveTime(sessions[u], now) >= session_timeout
                        /\ ~sessions[u].closing_notice_sent )
                /\ u \in users_to_warn' <=>
                      ( /\ 2 * InactiveTime(sessions[u], now) >= session_timeout
                        /\ u \notin users_to_close'
                        /\ ~sessions[u].inactivity_warning_sent ) ]_vars


\* C27: load_sessions of a well-formed file gives every loaded session, for
\* each of the two notice flags, the record's value when the record has the
\* key and false when it has not.
C27_MissingFlagsDefault ==
    [][ \A f \in FileInputs :
          (load_sessions(f) /\ f.kind = "json" /\ ~Malformed(f))
            => \A u \in DOMAIN f.records :
                  \A k \in {"inactivity_warning_sent", "closing_notice_sent"} :
                     /\ u \in DOMAIN sessions'
                     /\ sessions'[u][k] = IF k \in DOMAIN f.records[u]
                                            THEN f.records[u][k]
                                            ELSE FALSE ]_vars

\* C27 witness: a session has been loaded from a record that had
\* inactivity_warning_sent = true and no closing_notice_sent key.
C27_Witness ==
    /\ ret.op = "load_sessions"
    /\ ret.raised = "None"
    /\ file.kind = "json"
    /\ \E u \in (DOMAIN sessions) \cap (DOMAIN file.records) :
          /\ sessions[u].inactivity_warning_sent
          /\ ~sessions[u].closing_notice_sent
          /\ ~file.records[u].inactivity_warning_sent


\* C28: get_session on a user that has a session sets last_activity to the
\* call's time and both notice flags to false and leaves every other field
\* (state, context, thread_id, message_history, created_at) as last written.
C28_GetSessionKeepsFields ==
    [][ \A t \in Threads :
          (get_session_return(t) /\ fg[t].user \in DOMAIN sessions)
            => LET u == fg[t].user IN
               /\ u \in DOMAIN sessions'
               /\ DOMAIN sessions'[u] = DOMAIN sessions[u]
               /\ \A k \in (DOMAIN sessions[u]) \ Refreshed : sessions'[u][k] = sessions[u][k]
               /\ sessions'[u].last_activity = now
               /\ ~sessions'[u].inactivity_warning_sent
               /\ ~sessions'[u].closing_notice_sent ]_vars

\* C28 witness: get_session is inside its locked block on a session whose
\* state update_session set earlier, that has a history entry and that the
\* scan has flagged since.
C28_Witness ==
    \E t \in Threads :
        /\ fg[t].pc = "locked"
        /\ fg[t].found
        /\ fg[t].user \in DOMAIN sessions
        /\ sessions[fg[t].user].state = "AWAITING_QUERY"
        /\ Len(sessions[fg[t].user].message_history) > 0
        /\ sessions[fg[t].user].inactivity_warning_sent
        /\ sessions[fg[t].user].last_activity < now


\* C29: a caller that writes into the value get_session returned does not
\* change the record kept in the store.
C29_ReturnedValueDetached ==
    [][ \A u \in Users : caller_writes_context(u) => sessions' = sessions ]_vars


\* C30: when end_session(u) ran after the scan marked u and before u's action,
\* the action is skipped: the notifier is not invoked for u and u stays absent.
C30_EndedUserSkipped ==
    [][ /\ ( /\ warn_notify \/ close_notify
             /\ tick_fg[sched_user] = "other"
             /\ sched_user \notin DOMAIN sessions ) => notified' = notified
        /\ ( /\ warn_record \/ close_record
             /\ tick_fg[sched_user] = "other"
             /\ sched_user \notin DOMAIN sessions ) => sched_user \notin DOMAIN sessions'
      ]_vars


\* C31: while no notifier is registered a tick still does all its work and
\* notifies nobody: the scan flags every session due for a warning and marks
\* every session past the timeout, each marked user is processed before the
\* tick ends, the warning is appended to the history of a warned session that
\* is still stored (and is there after the warnings for a session no foreground
\* call touched meanwhile), and a session marked for closing is removed.
C31_TickWithoutNotifier ==
    [][ ~send_message_func =>
          /\ cleanup_scan =>
               /\ users_to_close' =
                    {u \in DOMAIN sessions :
                        InactiveTime(sessions[u], now) >= session_timeout}
               /\ users_to_warn' =
                    {u \in DOMAIN sessions :
                        /\ InactiveTime(sessions[u], now) >= inactivity_warning
                        /\ InactiveTime(sessions[u], now) < session_timeout
                        /\ ~sessions[u].inactivity_warning_sent}
               /\ \A u \in users_to_warn' : sessions'[u].inactivity_warning_sent
          /\ (sched_pc = "warn_loop" /\ sched_pc' = "close_loop") =>
               \A u \in users_to_warn :
                   (u \in DOMAIN sessions /\ tick_fg[u] = "none") =>
                       \E i \in DOMAIN sessions[u].message_history :
                           sessions[u].message_history[i].content = WarningMessage
          /\ (warn_record /\ sched_user \in DOMAIN sessions) =>
               sessions'[sched_user].message_history =
                   Append(sessions[sched_user].message_history,
                          HistoryEntry("assistant", WarningMessage, now))
          /\ close_record => sched_user \notin DOMAIN sessions'
          /\ cleanup_sleep =>
               /\ users_to_warn \subseteq Processed("warning")
               /\ users_to_close \subseteq Processed("closing")
          /\ notified' = notified
      ]_vars

C31_Witness ==
    /\ ~send_message_func
    /\ sched_pc = "pass_done"
    /\ users_to_close # {}
    /\ users_to_close \cap DOMAIN sessions = {}
    /\ \E u \in users_to_warn \cap DOMAIN sessions :
          /\ sessions[u].inactivity_warning_sent
          /\ sessions[u].message_history # << >>
          /\ sessions[u].message_history[Len(sessions[u].message_history)].content
               = WarningMessage


\* C32: get_session on a stored session that is past its timeout keeps the
\* record (state, context, thread_id, message_history and created_at as they
\* were) and refreshes it, so that the session is active again; a session that
\* was refreshed at the current instant is reported active by
\* is_session_active and is not marked for closing by a scan.
C32_ExpiredSessionRevived ==
    [][ /\ \A t \in Threads :
             ( /\ get_session_return(t)
               /\ fg[t].user \in DOMAIN sessions
               /\ InactiveTime(sessions[fg[t].user], now) >= session_timeout )
               => LET u == fg[t].user IN
                  /\ u \in DOMAIN sessions'
                  /\ \A k \in {"state", "context", "thread_id",
                               "message_history", "created_at"} :
                         sessions'[u][k] = sessions[u][k]
                  /\ sessions'[u].last_activity = now
                  /\ IsActive(sessions'[u], now)
                  /\ ~ShouldClose(sessions'[u], now)
        /\ \A u \in DOMAIN sessions :
             (is_session_active(u) /\ sessions[u].last_activity = now)
               => ret'.value = TRUE
        /\ \A u \in DOMAIN sessions :
             (cleanup_scan /\ sessions[u].last_activity = now)
               => u \notin users_to_close'
      ]_vars

\* C32 witness: get_session is inside its locked block on a session that is
\* past its timeout, that no scan has marked, whose state update_session set
\* earlier and that has a history entry.
C32_Witness ==
    \E t \in Threads :
        /\ fg[t].pc = "locked"
        /\ fg[t].found
        /\ fg[t].user \in DOMAIN sessions
        /\ InactiveTime(sessions[fg[t].user], now) >= session_timeout
        /\ ~sessions[fg[t].user].closing_notice_sent
        /\ fg[t].user \notin users_to_close
        /\ sessions[fg[t].user].state = "AWAITING_QUERY"
        /\ Len(sessions[fg[t].user].message_history) > 0


StoredTicketStep(u) == TicketStep(sessions[u].context)

\* C33: while the stored session is in TICKET_CREATION, a message handled at
\* step subject, description or email moves the stored ticket_step to the next
\* step; create_odoo_ticket is called only when the stored step is
\* confirmation, and at most once in a flow; and when the handler of a
\* confirmation message has finished its ticket branch the session is in
\* AWAITING_QUERY with an empty context.
C33_TicketFlow ==
    [][ \A t \in Threads :
          LET u == handler[t].user IN
          /\ (h_collect(t) /\ sessions[u].state = "TICKET_CREATION")
               => /\ StoredTicketStep(u) # "confirmation"
                  /\ StoredTicketStep(u)' = NextTicketStep(StoredTicketStep(u))
          /\ (h_confirm(t) /\ tickets' # tickets)
               => /\ sessions[u].state = "TICKET_CREATION"
                  /\ StoredTicketStep(u) = "confirmation"
                  /\ tickets' <= 1
          /\ (h_sync(t) /\ handler[t].branch = "confirmation")
               => /\ sessions'[u].state = "AWAITING_QUERY"
                  /\ sessions'[u].context = EmptyDict
      ]_vars


\* C34: load_sessions into a store that holds sessions leaves every session
\* whose user id is not in the file as it was and replaces every session whose
\* user id is in the file by the file's record, converted.
C34_LoadMergesByUser ==
    [][ \A f \in FileInputs :
          (load_sessions(f) /\ sessions # << >>)
            => \A u \in DOMAIN sessions :
                  /\ u \in DOMAIN sessions'
                  /\ IF f.kind = "json" /\ u \in DOMAIN f.records
                       THEN /\ RecordError(f.records[u]) = "None"
                            /\ sessions'[u] = LoadedSession(f.records[u])
                       ELSE sessions'[u] = sessions[u] ]_vars

=============================================================================
